---- MODULE Spec2Model ----
(***************************************************************************)
(* Distance-Vector routing simulation (DistanceVector.py): the Graph, the  *)
(* Router objects and the round structure of main().                       *)
(***************************************************************************)
EXTENDS Integers, Sequences, FiniteSets, TLC

\* ---------------------------------------------------------------- bounds
\* Number of declared nodes, of link lines before UPDATE, and largest link cost.
\* The UPDATE block holds one line (the single topology-change event).
MaxNodes == 3
MaxEdges == 2
MaxCost == 1

\* ------------------------------------------------------ program constants
\* math.inf; every cost the bounded runs can build stays far below it.
INF == 1000
\* next_hop marker of an unreachable destination (create_routing_table).
NoHop == "INF"
\* max_iterations of the post-update loop.
max_iterations == 2

\* ----------------------------------------------------------- input domain
\* Node names the input may use, in Python's string order.
SortedNames == <<"W", "X", "Y", "Z">>
Names == {SortedNames[i] : i \in 1..Len(SortedNames)}
\* Order in which the input declares its nodes (a prefix of it is declared).
NodeOrder == <<"Y", "X", "Z", "W">>
Costs == 0..MaxCost
Rank(n) == CHOOSE i \in 1..Len(SortedNames) : SortedNames[i] = n

\* Link lines the input may hold: the two names in string order (the link is
\* undirected), one of them a declared node unless the line is a self-link.
InputLink(declared, node1, node2) ==
  /\ Rank(node1) <= Rank(node2)
  /\ node1 \in declared \/ node2 \in declared \/ node1 = node2

\* ------------------------------------------------------------ dict helpers
EmptyDict == [x \in {} |-> 0]
DictSet(f, k, v) == [x \in (DOMAIN f) \cup {k} |-> IF x = k THEN v ELSE f[x]]
DictDel(f, k) == [x \in (DOMAIN f) \ {k} |-> f[x]]

RECURSIVE SortedSeq(_)
SortedSeq(S) ==
  IF S = {} THEN <<>>
  ELSE LET m == CHOOSE x \in S : \A y \in S : Rank(x) <= Rank(y)
       IN <<m>> \o SortedSeq(S \ {m})

MinOf(S) == CHOOSE x \in S : \A y \in S : x <= y

\* ------------------------------------------------------------------ Graph
add_node(g, n) == IF n \in DOMAIN g THEN g ELSE DictSet(g, n, EmptyDict)

\* add_edge that forgets the reverse direction.
add_edge_oneway(g, node1, node2, cost) ==
  LET g0 == add_node(add_node(g, node1), node2)
  IN [g0 EXCEPT ![node1] = DictSet(g0[node1], node2, cost)]

add_edge(g, node1, node2, cost) ==
  LET g0 == add_node(add_node(g, node1), node2)
      g1 == [g0 EXCEPT ![node1] = DictSet(g0[node1], node2, cost)]
  IN [g1 EXCEPT ![node2] = DictSet(g1[node2], node1, cost)]

get_neighbors(g, n) == IF n \in DOMAIN g THEN DOMAIN g[n] ELSE {}

\* Key order of the dicts adj_list[n]: a new key goes to the end, a key that
\* is assigned again keeps its place, a deleted key leaves the order.
order_node(o, n) == IF n \in DOMAIN o THEN o ELSE DictSet(o, n, <<>>)

order_put(o, a, b) ==
  [o EXCEPT ![a] = IF \E i \in 1..Len(o[a]) : o[a][i] = b
                   THEN o[a] ELSE Append(o[a], b)]

order_edge(o, node1, node2) ==
  order_put(order_put(order_node(order_node(o, node1), node2), node1, node2),
            node2, node1)

order_del(o, a, b) == [o EXCEPT ![a] = SelectSeq(o[a], LAMBDA x : x # b)]

\* ----------------------------------------------------------------- Router
initialize_distance_table(self, nodeSet) ==
  LET others == nodeSet \ {self}
  IN [d \in others |-> [v \in others |-> INF]]

\* update_self raises KeyError when a neighbour has no row in the table.
update_self_fails(self, table, g) ==
  \E nb \in get_neighbors(g, self) : nb \notin DOMAIN table

\* The table update_self leaves when it raises: line 52 has run for the
\* neighbours that come before the first one without a row.
update_self_partial(self, table, g, nbrs) ==
  LET bad == CHOOSE i \in 1..Len(nbrs) :
               /\ nbrs[i] \notin DOMAIN table
               /\ \A j \in 1..(i - 1) : nbrs[j] \in DOMAIN table
      written == {nbrs[j] : j \in 1..(bad - 1)}
  IN [d \in DOMAIN table |->
        [v \in DOMAIN table[d] |->
           IF d = v /\ v \in written THEN g[self][v] ELSE table[d][v]]]

\* update_self whose non-neighbour test forgets to skip the router itself.
update_self_noself(self, table, g, routerNames) ==
  LET neighbors == get_neighbors(g, self)
      t1 == [d \in DOMAIN table |->
               [v \in DOMAIN table[d] |->
                  IF d = v /\ v \in neighbors THEN g[self][v] ELSE table[d][v]]]
      nonNbrs == {r \in routerNames : r \notin neighbors}
  IN [d \in DOMAIN t1 |->
        [v \in (DOMAIN t1[d]) \cup nonNbrs |->
           IF v \in nonNbrs THEN INF ELSE t1[d][v]]]

update_self(self, table, g, routerNames) ==
  LET neighbors == get_neighbors(g, self)
      t1 == [d \in DOMAIN table |->
               [v \in DOMAIN table[d] |->
                  IF d = v /\ v \in neighbors THEN g[self][v] ELSE table[d][v]]]
      nonNbrs == {r \in routerNames : r \notin neighbors /\ r # self}
  IN [d \in DOMAIN t1 |->
        [v \in (DOMAIN t1[d]) \cup nonNbrs |->
           IF v \in nonNbrs THEN INF ELSE t1[d][v]]]

\* Scan of one row in sorted via order; strict < keeps the first minimum.
RECURSIVE ScanRow(_, _, _, _)
ScanRow(row, vias, min_cost, next_hop) ==
  IF vias = <<>> THEN [cost |-> min_cost, nextHop |-> next_hop]
  ELSE IF row[Head(vias)] < min_cost
       THEN ScanRow(row, Tail(vias), row[Head(vias)], Head(vias))
       ELSE ScanRow(row, Tail(vias), min_cost, next_hop)

\* create_routing_table that scans the vias in descending order.
create_routing_table_desc(table) ==
  [d \in DOMAIN table |->
     LET vias == SortedSeq(DOMAIN table[d])
     IN ScanRow(table[d], [i \in 1..Len(vias) |-> vias[Len(vias) + 1 - i]],
                INF, NoHop)]

create_routing_table(table) ==
  [d \in DOMAIN table |-> ScanRow(table[d], SortedSeq(DOMAIN table[d]), INF, NoHop)]

\* total_cost that adds without testing either operand for INF.
total_cost_noinf(own, source, msgTable, dest) ==
  LET cost_to_source == own[source][source]
      min_cost == MinOf({msgTable[dest][v] : v \in DOMAIN msgTable[dest]})
  IN cost_to_source + min_cost

\* total_cost that leaves out the cost of the link to the source.
total_cost_nosum(own, source, msgTable, dest) ==
  LET cost_to_source == own[source][source]
      min_cost == MinOf({msgTable[dest][v] : v \in DOMAIN msgTable[dest]})
  IN IF cost_to_source # INF /\ min_cost # INF
     THEN min_cost ELSE INF

\* Relaxation of the via=source column with one received (source, table).
total_cost(own, source, msgTable, dest) ==
  LET cost_to_source == own[source][source]
      min_cost == MinOf({msgTable[dest][v] : v \in DOMAIN msgTable[dest]})
  IN IF cost_to_source # INF /\ min_cost # INF
     THEN cost_to_source + min_cost ELSE INF

ProcessOne(own, source, msgTable) ==
  [d \in DOMAIN own |->
     [v \in DOMAIN own[d] |->
        IF d # source /\ v = source
        THEN total_cost(own, source, msgTable, d) ELSE own[d][v]]]

\* Fold of process_received_tables over the mailbox, first entry first.
RECURSIVE ProcessAll(_, _, _)
ProcessAll(own, flag, box) ==
  IF box = <<>> THEN [table |-> own, flag |-> flag]
  ELSE LET new == ProcessOne(own, Head(box).source, Head(box).table)
       IN ProcessAll(new, flag \/ new # own, Tail(box))

\* process_received_tables that takes only the oldest pending entry per call
\* and removes it from the mailbox.
process_received_tables_one(w, self) ==
  IF w.mbox[self] = <<>> THEN w
  ELSE LET r == ProcessAll(w.dt[self], w.dirty[self], <<Head(w.mbox[self])>>)
       IN [w EXCEPT !.dt[self] = r.table, !.dirty[self] = r.flag,
                    !.mbox[self] = Tail(w.mbox[self])]

\* A world w is the routers' fields: w.dt, w.rt, w.mbox, w.dirty, by name.
process_received_tables(w, self) ==
  LET r == ProcessAll(w.dt[self], w.dirty[self], w.mbox[self])
  IN [w EXCEPT !.dt[self] = r.table, !.dirty[self] = r.flag]

\* send_updates that first takes in the router's own pending messages.
send_updates_late(w, self, neighbors) ==
  LET w1 == process_received_tables(w, self)
  IN IF ~w1.dirty[self] THEN w1
     ELSE [dt |-> w1.dt,
           rt |-> [w1.rt EXCEPT ![self] = create_routing_table(w1.dt[self])],
           mbox |-> [r \in DOMAIN w1.mbox |->
                       IF r \in neighbors
                       THEN Append(w1.mbox[r], [source |-> self, table |-> w1.dt[self]])
                       ELSE w1.mbox[r]],
           dirty |-> [w1.dirty EXCEPT ![self] = FALSE]]

send_updates(w, self, neighbors) ==
  IF ~w.dirty[self] THEN w
  ELSE [dt |-> w.dt,
        rt |-> [w.rt EXCEPT ![self] = create_routing_table(w.dt[self])],
        mbox |-> [r \in DOMAIN w.mbox |->
                    IF r \in neighbors
                    THEN Append(w.mbox[r], [source |-> self, table |-> w.dt[self]])
                    ELSE w.mbox[r]],
        dirty |-> [w.dirty EXCEPT ![self] = FALSE]]

\* Reset that forgets the links: every entry becomes INF.
ResetTable_allinf(self, table, g) ==
  [d \in DOMAIN table |-> [v \in DOMAIN table[d] |-> INF]]

\* The table process_after_update leaves: every entry of a neighbour's column
\* becomes the link cost to that neighbour, every other entry INF.
ResetTable(self, table, g) ==
  LET neighbors == get_neighbors(g, self)
  IN [d \in DOMAIN table |->
        [v \in DOMAIN table[d] |->
           IF v \in neighbors THEN g[self][v] ELSE INF]]

\* process_after_update that keeps the pending messages.
process_after_update_keepbox(w, self, g) ==
  LET new == ResetTable(self, w.dt[self], g)
  IN [w EXCEPT !.dt[self] = new,
               !.dirty[self] = w.dirty[self] \/ new # w.dt[self]]

process_after_update(w, self, g) ==
  LET new == ResetTable(self, w.dt[self], g)
  IN [w EXCEPT !.dt[self] = new,
               !.mbox[self] = <<>>,
               !.dirty[self] = w.dirty[self] \/ new # w.dt[self]]

\* Exit test that lets a third round run.
break_initial_late(round) == round >= 3

\* Exit test of the initial loop, evaluated after each round.
break_initial(round) == round >= 2

\* ------------------------------------------------------------------ state
\* pc, idx: position of main() and of its set-up loop over the routers;
\* nodes, graph: declared names and Graph.adj_list;
\* adj_order: for each node of adj_list, its neighbours in the insertion order
\*   of the dict adj_list[node] (the order in which update_self visits them);
\* dt, rt, mbox, dirty: each Router's distance_table, routing_table,
\*   updates_to_process and update_neighbors, by router name;
\* t, iteration: the counters of main(); stage: which loop a round belongs to;
\* nEdges: number of link lines consumed (bounded);
\* roundEnd: the distance tables as they stood at the end of the last round;
\* topo0: the adjacency as it stood before the topology-change event.
VARIABLES pc, idx, nodes, graph, adj_order, dt, rt, mbox, dirty, t, iteration,
          stage, nEdges, roundEnd, topo0

vars == <<pc, idx, nodes, graph, adj_order, dt, rt, mbox, dirty, t, iteration,
          stage, nEdges, roundEnd, topo0>>

NodeSet == {nodes[i] : i \in 1..Len(nodes)}
AnyDirty == \E n \in NodeSet : dirty[n]

World == [dt |-> dt, rt |-> rt, mbox |-> mbox, dirty |-> dirty]

SetWorld(w) ==
  \E x \in {w} :
    /\ dt' = x.dt
    /\ rt' = x.rt
    /\ mbox' = x.mbox
    /\ dirty' = x.dirty

\* for router in routers: router.send_updates(graph.get_neighbors(...), ...)
RECURSIVE SendAll(_, _)
SendAll(w, i) ==
  IF i > Len(nodes) THEN w
  ELSE SendAll(send_updates(w, nodes[i], get_neighbors(graph, nodes[i])), i + 1)

\* for router in routers: router.process_received_tables(t)
RECURSIVE ReceiveAll(_, _)
ReceiveAll(w, i) ==
  IF i > Len(nodes) THEN w
  ELSE ReceiveAll(process_received_tables(w, nodes[i]), i + 1)

\* for router in routers: router.process_after_update(graph, routers)
RECURSIVE ResetAll(_, _)
ResetAll(w, i) ==
  IF i > Len(nodes) THEN w
  ELSE ResetAll(process_after_update(w, nodes[i], graph), i + 1)

Init ==
  /\ pc = "nodes"
  /\ idx = 1
  /\ nodes = <<>>
  /\ graph = EmptyDict
  /\ adj_order = EmptyDict
  /\ dt = EmptyDict
  /\ rt = EmptyDict
  /\ mbox = EmptyDict
  /\ dirty = EmptyDict
  /\ t = 0
  /\ iteration = 0
  /\ stage = "initial"
  /\ nEdges = 0
  /\ roundEnd = EmptyDict
  /\ topo0 = EmptyDict

\* ---------------------------------------------------------- input, set-up
DeclareNode ==
  /\ pc = "nodes"
  /\ Len(nodes) < MaxNodes
  /\ Len(nodes) < Len(NodeOrder)
  /\ nodes' = Append(nodes, NodeOrder[Len(nodes) + 1])
  /\ graph' = add_node(graph, NodeOrder[Len(nodes) + 1])
  /\ adj_order' = order_node(adj_order, NodeOrder[Len(nodes) + 1])
  /\ UNCHANGED <<pc, idx, dt, rt, mbox, dirty, t, iteration, stage, nEdges,
                 roundEnd, topo0>>

EndNodes ==
  /\ pc = "nodes"
  /\ pc' = "edges"
  /\ UNCHANGED <<idx, nodes, graph, adj_order, dt, rt, mbox, dirty, t, iteration, stage,
                 nEdges, roundEnd, topo0>>

DeclareEdge ==
  /\ pc = "edges"
  /\ nEdges < MaxEdges
  /\ \E node1 \in Names, node2 \in Names, cost \in Costs \cup {INF} :
       /\ InputLink(NodeSet, node1, node2)
       /\ graph' = IF cost # INF THEN add_edge(graph, node1, node2, cost) ELSE graph
       /\ adj_order' = IF cost # INF THEN order_edge(adj_order, node1, node2)
                       ELSE adj_order
  /\ nEdges' = nEdges + 1
  /\ UNCHANGED <<pc, idx, nodes, dt, rt, mbox, dirty, t, iteration, stage,
                 roundEnd, topo0>>

CreateRouters ==
  /\ pc = "edges"
  /\ pc' = "setup"
  /\ idx' = 1
  /\ nEdges' = 0
  /\ dt' = [n \in NodeSet |-> EmptyDict]
  /\ rt' = [n \in NodeSet |-> EmptyDict]
  /\ mbox' = [n \in NodeSet |-> <<>>]
  /\ dirty' = [n \in NodeSet |-> FALSE]
  /\ UNCHANGED <<nodes, graph, adj_order, t, iteration, stage, roundEnd, topo0>>

\* One router's initialize_distance_table and update_self; a KeyError of
\* update_self ends the run with the writes it made before in place.
SetupRouter ==
  /\ pc = "setup"
  /\ idx <= Len(nodes)
  /\ LET self == nodes[idx]
         tbl == initialize_distance_table(self, NodeSet)
     IN IF update_self_fails(self, tbl, graph)
        THEN /\ pc' = "error"
             /\ dt' = [dt EXCEPT ![self] =
                         update_self_partial(self, tbl, graph, adj_order[self])]
             /\ UNCHANGED <<idx, dirty>>
        ELSE /\ dt' = [dt EXCEPT ![self] = update_self(self, tbl, graph, NodeSet)]
             /\ dirty' = [dirty EXCEPT ![self] = TRUE]
             /\ idx' = idx + 1
             /\ pc' = pc
  /\ UNCHANGED <<nodes, graph, adj_order, rt, mbox, t, iteration, stage, nEdges,
                 roundEnd, topo0>>

SetupDone ==
  /\ pc = "setup"
  /\ idx > Len(nodes)
  /\ pc' = "while_initial"
  /\ idx' = 1
  /\ roundEnd' = dt
  /\ UNCHANGED <<nodes, graph, adj_order, dt, rt, mbox, dirty, t, iteration, stage,
                 nEdges, topo0>>

\* ----------------------------------------------------------------- rounds
WhileInitial ==
  /\ pc = "while_initial"
  /\ IF AnyDirty
     THEN /\ t' = t + 1
          /\ pc' = "send"
     ELSE /\ pc' = "report_initial"
          /\ t' = t
  /\ UNCHANGED <<idx, nodes, graph, adj_order, dt, rt, mbox, dirty, iteration, stage,
                 nEdges, roundEnd, topo0>>

\* Broadcast phase: every router, in creation order, runs send_updates.
SendPhase ==
  /\ pc = "send"
  /\ SetWorld(SendAll(World, 1))
  /\ pc' = "recv"
  /\ UNCHANGED <<idx, nodes, graph, adj_order, t, iteration, stage, nEdges, roundEnd,
                 topo0>>

\* Receive phase: every router runs process_received_tables.
ReceivePhase ==
  /\ pc = "recv"
  /\ SetWorld(ReceiveAll(World, 1))
  /\ pc' = "round_end"
  /\ UNCHANGED <<idx, nodes, graph, adj_order, t, iteration, stage, nEdges, roundEnd,
                 topo0>>

\* End of a round: roundEnd keeps the tables as they stand at the round's end.
EndRound ==
  /\ pc = "round_end"
  /\ roundEnd' = dt
  /\ pc' = IF stage = "initial"
           THEN (IF break_initial(t) THEN "report_initial" ELSE "while_initial")
           ELSE "while_update"
  /\ UNCHANGED <<idx, nodes, graph, adj_order, dt, rt, mbox, dirty, t, iteration, stage,
                 nEdges, topo0>>

\* ---------------------------------------------------------- topology change
NoUpdates ==
  /\ pc = "report_initial"
  /\ pc' = "done"
  /\ UNCHANGED <<idx, nodes, graph, adj_order, dt, rt, mbox, dirty, t, iteration, stage,
                 nEdges, roundEnd, topo0>>

\* The line of the UPDATE block: a removal (cost -1) or add_edge; then t += 1.
ApplyUpdate ==
  /\ pc = "report_initial"
  /\ topo0' = graph
  /\ stage' = "update_round"
  /\ \E node1 \in Names, node2 \in Names, cost \in Costs \cup {INF} :
       /\ InputLink(NodeSet, node1, node2)
       /\ IF cost = INF
          THEN IF node2 \in get_neighbors(graph, node1)
               THEN IF node1 = node2
                    THEN /\ graph' = [graph EXCEPT ![node1] = DictDel(graph[node1], node2)]
                         /\ adj_order' = order_del(adj_order, node1, node2)
                         /\ pc' = "error"
                         /\ t' = t
                    ELSE /\ graph' = [graph EXCEPT
                                        ![node1] = DictDel(graph[node1], node2),
                                        ![node2] = DictDel(graph[node2], node1)]
                         /\ adj_order' = order_del(order_del(adj_order, node1, node2),
                                                   node2, node1)
                         /\ pc' = "reset"
                         /\ t' = t + 1
               ELSE /\ graph' = graph
                    /\ adj_order' = adj_order
                    /\ pc' = "reset"
                    /\ t' = t + 1
          ELSE /\ graph' = add_edge(graph, node1, node2, cost)
               /\ adj_order' = order_edge(adj_order, node1, node2)
               /\ pc' = "reset"
               /\ t' = t + 1
  /\ UNCHANGED <<idx, nodes, dt, rt, mbox, dirty, iteration, nEdges, roundEnd>>

\* Reset phase: every router runs process_after_update.
ResetPhase ==
  /\ pc = "reset"
  /\ SetWorld(ResetAll(World, 1))
  /\ pc' = "send"
  /\ UNCHANGED <<idx, nodes, graph, adj_order, t, iteration, stage, nEdges, roundEnd,
                 topo0>>

\* Loop test of the post-update loop that admits one iteration too many.
WhileUpdate_late ==
  /\ pc = "while_update"
  /\ IF AnyDirty /\ iteration <= max_iterations
     THEN /\ t' = t + 1
          /\ iteration' = iteration + 1
          /\ stage' = "update_loop"
          /\ pc' = "send"
     ELSE /\ pc' = "report_final"
          /\ UNCHANGED <<t, iteration, stage>>
  /\ UNCHANGED <<idx, nodes, graph, adj_order, dt, rt, mbox, dirty, nEdges, roundEnd,
                 topo0>>

WhileUpdate ==
  /\ pc = "while_update"
  /\ IF AnyDirty /\ iteration < max_iterations
     THEN /\ t' = t + 1
          /\ iteration' = iteration + 1
          /\ stage' = "update_loop"
          /\ pc' = "send"
     ELSE /\ pc' = "report_final"
          /\ UNCHANGED <<t, iteration, stage>>
  /\ UNCHANGED <<idx, nodes, graph, adj_order, dt, rt, mbox, dirty, nEdges, roundEnd,
                 topo0>>

Next ==
  \/ DeclareNode
  \/ EndNodes
  \/ DeclareEdge
  \/ CreateRouters
  \/ SetupRouter
  \/ SetupDone
  \/ WhileInitial
  \/ SendPhase
  \/ ReceivePhase
  \/ EndRound
  \/ NoUpdates
  \/ ApplyUpdate
  \/ ResetPhase
  \/ WhileUpdate

Spec == Init /\ [][Next]_vars

\* ================================================================= claims
Pos(n) == CHOOSE i \in 1..Len(nodes) : nodes[i] = n

RowMin(row) == MinOf({row[v] : v \in DOMAIN row})

\* Smallest via (string order) whose cost is the row's minimum.
BestVia(row) ==
  IF RowMin(row) = INF THEN NoHop
  ELSE CHOOSE v \in DOMAIN row :
         /\ row[v] = RowMin(row)
         /\ \A u \in DOMAIN row : row[u] = RowMin(row) => Rank(v) <= Rank(u)

AtReport == pc \in {"report_initial", "report_final"}

\* C1: at each point where routing tables are reported, for every node and
\* destination the routing table's cost is the minimum of the node's current
\* distance-table row and its next hop is the smallest via with that cost.
C1_RoutingConsistent ==
  AtReport =>
    \A n \in NodeSet : \A d \in DOMAIN dt[n] :
      /\ d \in DOMAIN rt[n]
      /\ rt[n][d].cost = RowMin(dt[n][d])
      /\ rt[n][d].nextHop = BestVia(dt[n][d])

\* C2: after every receive phase every agent's mailbox is empty.
C2_MailboxEmptyAfterReceive ==
  pc = "round_end" => \A n \in NodeSet : mbox[n] = <<>>

\* C3: between two consecutive round ends with no topology reset in the later
\* round (link costs then being unchanged), no distance-table entry increases,
\* INF counting as larger than any finite cost.
C3_NoIncrease ==
  (pc = "round_end" /\ stage # "update_round") =>
    \A n \in NodeSet : \A d \in DOMAIN dt[n] : \A v \in DOMAIN dt[n][d] :
      dt[n][d][v] <= roundEnd[n][d][v]

RECURSIVE ReachSet(_, _)
ReachSet(g, S) ==
  LET S1 == S \cup UNION {get_neighbors(g, a) : a \in S}
  IN IF S1 = S THEN S ELSE ReachSet(g, S1)

Reachable(g, a, b) == b \in ReachSet(g, {a})

LinkRemoved ==
  \E a \in DOMAIN topo0 : \E b \in DOMAIN topo0[a] : b \notin get_neighbors(graph, a)

\* C4: when the topology change removes a link so that d is no longer
\* reachable from n, the routing table of n reported at #FINAL has for d the
\* cost INF and the next hop marker of "none".
C4_DisconnectUnreachable ==
  (pc = "report_final" /\ LinkRemoved) =>
    \A n \in NodeSet : \A d \in NodeSet \ {n} :
      (Reachable(topo0, n, d) /\ ~Reachable(graph, n, d)) =>
        /\ d \in DOMAIN rt[n]
        /\ rt[n][d] = [cost |-> INF, nextHop |-> NoHop]

\* One more full round from the current world: every router broadcasts, in
\* creation order, then every router receives.
OneMoreRound == ReceiveAll(SendAll(World, 1), 1)

\* C5: at the end of a receive phase with no agent Dirty, one more full round
\* (broadcast by all, then receive by all) leaves every distance table and
\* every routing table unchanged.
C5_FixedPointIdempotent ==
  (pc = "round_end" /\ ~AnyDirty) =>
    \A w \in {OneMoreRound} : w.dt = dt /\ w.rt = rt

C5_Witness ==
  /\ pc = "round_end"
  /\ ~AnyDirty
  /\ \E n \in NodeSet :
       /\ mbox[n] # <<>>
       /\ \E d \in DOMAIN dt[n] : \E v \in DOMAIN dt[n][d] : d # v /\ dt[n][d][v] # INF

Perms(k) == {f \in [1..k -> 1..k] : \A i, j \in 1..k : f[i] = f[j] => i = j}

Permuted(box, f) == [i \in 1..Len(box) |-> box[f[i]]]

\* C6: at the start of a receive phase, processing an agent's mailbox in any
\* permutation gives the same final distance table and the same Dirty flag.
C6_OrderIndependent ==
  pc = "recv" =>
    \A n \in NodeSet : \A f \in Perms(Len(mbox[n])) :
      ProcessAll(dt[n], dirty[n], Permuted(mbox[n], f))
        = ProcessAll(dt[n], dirty[n], mbox[n])

SetupError == pc = "error" /\ stage = "initial"

\* Router n has run initialize_distance_table.
IsSetUp(n) ==
  /\ pc \notin {"nodes", "edges"}
  /\ pc = "setup" => Pos(n) < idx
  /\ SetupError => Pos(n) <= idx

\* C7: once set up, each agent's distance table has as destination set, and
\* as via set of every row, exactly the declared names minus the agent's own,
\* also after an update that names undeclared nodes.
C7_ShapeInvariant ==
  \A n \in NodeSet : IsSetUp(n) =>
    /\ DOMAIN dt[n] = NodeSet \ {n}
    /\ \A d \in DOMAIN dt[n] : DOMAIN dt[n][d] = NodeSet \ {n}

C7_Witness ==
  /\ pc = "round_end"
  /\ stage = "update_round"
  /\ Len(nodes) >= 2
  /\ \E n \in NodeSet : \E u \in Names \ NodeSet : u \in get_neighbors(graph, n)

\* C8: after any sequence of topology operations, for all pairs (a,b) the
\* entries topology[a][b] and topology[b][a] are both present with equal
\* cost or both absent.
C8_TopologySymmetric ==
  \A a \in Names : \A b \in get_neighbors(graph, a) :
    /\ a \in get_neighbors(graph, b)
    /\ graph[b][a] = graph[a][b]

C8_Witness ==
  /\ pc = "reset"
  /\ \E a \in DOMAIN topo0 : \E b \in DOMAIN topo0[a] :
       /\ a # b
       /\ b \notin get_neighbors(graph, a)
       /\ a \notin get_neighbors(graph, b)
  /\ \E a \in DOMAIN graph : \E b \in DOMAIN graph[a] : a # b

\* C9: no input makes the run abort; every operation takes effect or is a
\* silent no-op and no error state is entered.
C9_NoAbort == pc # "error"

\* C10: exactly two rounds of exchange are executed before the routing
\* tables are reported at the end of initial convergence.
C10_ExactlyTwoRounds == pc = "report_initial" => t = 2

\* C10 (amended): at most two rounds are executed before the report; fewer
\* than two only when no agent is Dirty, and at least one when a node exists.
C10_AtMostTwoRounds ==
  pc = "report_initial" =>
    /\ t <= 2
    /\ t < 2 => ~AnyDirty
    /\ nodes # <<>> => t >= 1

C10_Witness ==
  /\ pc = "report_initial"
  /\ t = 1
  /\ \E n \in NodeSet : mbox[n] # <<>>

\* C11: after a topology change one round of reset, broadcast and receive is
\* always run; a further round is entered only while some agent is Dirty and
\* at most two are run, so the phase ends after 1 to 3 rounds, with no agent
\* Dirty or with exactly two extra rounds executed.
C11_PostUpdateRounds ==
  /\ pc = "reset" => (stage = "update_round" /\ iteration = 0)
  /\ stage = "update_round" => iteration = 0
  /\ stage = "update_loop" => iteration \in 1..2
  /\ (pc = "send" /\ stage = "update_loop") => AnyDirty
  /\ pc = "report_final" =>
       /\ stage # "initial"
       /\ 1 + iteration \in 1..3
       /\ ~AnyDirty \/ iteration = 2

C11_Witness ==
  /\ pc = "report_final"
  /\ iteration = 2
  /\ AnyDirty

IsPrefix(a, b) == Len(a) <= Len(b) /\ SubSeq(b, 1, Len(a)) = a

\* The messages a step appended to a mailbox.
Appended(old, new) == SubSeq(new, Len(old) + 1, Len(new))

\* C12: every broadcast completes before any receive begins: the broadcast
\* phase modifies no distance table and each message it appends carries the
\* sender's table as it stood at the end of the previous round (after the
\* reset, in the round of the topology change); the receive phase appends
\* nothing, and no step alters a message already in a mailbox (the reset
\* alone empties the mailboxes).
C12_SnapshotIsolation ==
  [][ /\ pc = "send" =>
           /\ dt' = dt
           /\ \A n \in NodeSet :
                LET new == Appended(mbox[n], mbox'[n])
                IN \A i \in 1..Len(new) :
                     LET s == new[i].source
                     IN /\ dirty[s]
                        /\ new[i].table = dt[s]
                        /\ new[i].table = IF stage = "update_round"
                                          THEN ResetTable(s, roundEnd[s], graph)
                                          ELSE roundEnd[s]
      /\ pc = "recv" => mbox' = mbox
      /\ pc # "reset" => \A n \in DOMAIN mbox : IsPrefix(mbox[n], mbox'[n])
    ]_vars

C12_Witness ==
  /\ pc = "round_end"
  /\ \E n \in NodeSet : \E i, j \in 1..Len(mbox[n]) :
       /\ i < j
       /\ mbox[n][i].source = mbox[n][j].source
       /\ mbox[n][i].table # mbox[n][j].table
       /\ mbox[n][i].table # dt[mbox[n][i].source]

\* ------------------------------------------------ the 3-node line scenario
\* Nodes X, Y, Z declared in any order, link lines 'X Y 2' and 'Y Z 1'.
LineNodes == {"X", "Y", "Z"}

LineGraph ==
  add_edge(add_edge(add_node(add_node(add_node(EmptyDict, "X"), "Y"), "Z"),
                    "X", "Y", 2),
           "Y", "Z", 1)

LineOrder ==
  order_edge(order_edge(order_node(order_node(order_node(EmptyDict, "X"), "Y"), "Z"),
                        "X", "Y"),
             "Y", "Z")

\* The state of main() once the graph of the scenario is built.
InitLine ==
  /\ pc = "edges"
  /\ idx = 1
  /\ nodes \in {<<a, b, c>> : a \in LineNodes, b \in LineNodes, c \in LineNodes}
  /\ Len(nodes) = Cardinality(NodeSet)
  /\ graph = LineGraph
  /\ adj_order = LineOrder
  /\ dt = EmptyDict
  /\ rt = EmptyDict
  /\ mbox = EmptyDict
  /\ dirty = EmptyDict
  /\ t = 0
  /\ iteration = 0
  /\ stage = "initial"
  /\ nEdges = 2
  /\ roundEnd = EmptyDict
  /\ topo0 = EmptyDict

NextLine ==
  \/ CreateRouters
  \/ SetupRouter
  \/ SetupDone
  \/ WhileInitial
  \/ SendPhase
  \/ ReceivePhase
  \/ EndRound
  \/ NoUpdates
  \/ ApplyUpdate
  \/ ResetPhase
  \/ WhileUpdate

SpecLine == InitLine /\ [][NextLine]_vars

\* C13: for nodes X, Y, Z with links X-Y of cost 2 and Y-Z of cost 1, the
\* routing tables reported at the end of initial convergence give X's route
\* to Z as via Y at cost 3, Z's route to X as via Y at cost 3 and Y's route
\* to X as via X at cost 2.
C13_LineScenario ==
  (pc = "report_initial" /\ NodeSet = LineNodes /\ graph = LineGraph) =>
    /\ rt["X"]["Z"] = [cost |-> 3, nextHop |-> "Y"]
    /\ rt["Z"]["X"] = [cost |-> 3, nextHop |-> "Y"]
    /\ rt["Y"]["X"] = [cost |-> 2, nextHop |-> "X"]

C13_Witness ==
  /\ pc = "report_initial"
  /\ NodeSet = LineNodes
  /\ graph = LineGraph
  /\ t = 2
  /\ nodes[1] = "Z"

\* C14: at the end of every receive phase an agent's Dirty flag is true
\* exactly when its distance table differs from the table it had at the
\* start of that receive phase.
C14_DirtyAccurate ==
  [][ pc = "recv" =>
        \A n \in NodeSet : dirty'[n] <=> (dt'[n] # dt[n]) ]_vars

\* C15: the table handleTopologyChange leaves equals the table that setup
\* followed by initializeFromTopology builds on the mutated topology: the only
\* finite entries are distanceTable[v][v] = link cost of a direct neighbour v.
C15_ResetIsRestart ==
  (pc = "send" /\ stage = "update_round") =>
    \A n \in NodeSet :
      LET fresh == initialize_distance_table(n, NodeSet)
      IN ~update_self_fails(n, fresh, graph) =>
           /\ dt[n] = update_self(n, fresh, graph, NodeSet)
           /\ \A d \in DOMAIN dt[n] : \A v \in DOMAIN dt[n][d] :
                dt[n][d][v] # INF => (d = v /\ v \in get_neighbors(graph, n))

\* The table and flag an agent holds before it processes entry k of its mailbox.
BeforeMsg(n, k) == ProcessAll(dt[n], dirty[n], SubSeq(mbox[n], 1, k - 1))

\* candidate of the relaxation step as the specification states it.
Candidate(own, s, senderTable, d) ==
  IF own[s][s] = INF \/ RowMin(senderTable[d]) = INF
  THEN INF ELSE own[s][s] + RowMin(senderTable[d])

\* C16: processing a message (s, senderTable) sets distanceTable[d][s], for
\* every destination d # s, to costToSource + min(senderTable[d]) with
\* costToSource = distanceTable[s][s], INF if either operand is INF; the
\* Dirty flag is set if and only if some entry changed; distanceTable[s][s]
\* and every via-column other than s stay as they are.
C16_RelaxationStep ==
  pc = "recv" =>
    \A n \in NodeSet : \A k \in 1..Len(mbox[n]) :
      LET own == BeforeMsg(n, k).table
          s == mbox[n][k].source
          senderTable == mbox[n][k].table
          res == ProcessAll(own, FALSE, <<mbox[n][k]>>)
      IN /\ DOMAIN res.table = DOMAIN own
         /\ \A d \in DOMAIN own :
              /\ DOMAIN res.table[d] = DOMAIN own[d]
              /\ \A v \in DOMAIN own[d] :
                   res.table[d][v] =
                     IF v = s /\ d # s THEN Candidate(own, s, senderTable, d)
                     ELSE own[d][v]
         /\ res.flag <=> (res.table # own)
         /\ ProcessAll(own, TRUE, <<mbox[n][k]>>).flag

C16_Witness ==
  /\ pc = "recv"
  /\ \E n \in NodeSet : \E k \in 1..Len(mbox[n]) :
       LET own == BeforeMsg(n, k).table
           s == mbox[n][k].source
           res == ProcessAll(own, FALSE, <<mbox[n][k]>>)
       IN /\ res.flag
          /\ s \in DOMAIN own
          /\ \E d \in DOMAIN own :
               d # s /\ res.table[d][s] # INF /\ res.table[d][s] # own[d][s]
  /\ \E n \in NodeSet : \E k \in 1..Len(mbox[n]) :
       LET own == BeforeMsg(n, k).table
           s == mbox[n][k].source
           res == ProcessAll(own, FALSE, <<mbox[n][k]>>)
       IN /\ s \in DOMAIN own
          /\ own[s][s] # INF
          /\ \E d \in DOMAIN own : d # s /\ res.table[d][s] = INF

\* C17: after handleTopologyChange has run on agent n, distanceTable[d][v]
\* is the current link cost topology[n][v] if v is a direct neighbour of n
\* and INF otherwise, for every destination d and via v; the agent's mailbox
\* is empty; the Dirty flag is set if the table differs from the table before
\* the call and is otherwise left at its previous value.
C17_ResetPostcondition ==
  [][ pc = "reset" =>
        \A n \in NodeSet :
          /\ DOMAIN dt'[n] = DOMAIN dt[n]
          /\ \A d \in DOMAIN dt[n] :
               /\ DOMAIN dt'[n][d] = DOMAIN dt[n][d]
               /\ \A v \in DOMAIN dt[n][d] :
                    dt'[n][d][v] = IF v \in get_neighbors(graph, n)
                                   THEN graph[n][v] ELSE INF
          /\ mbox'[n] = <<>>
          /\ dirty'[n] = IF dt'[n] # dt[n] THEN TRUE ELSE dirty[n] ]_vars

C17_Witness ==
  /\ pc = "send"
  /\ stage = "update_round"
  /\ \E n \in NodeSet : dt[n] # roundEnd[n] /\ dirty[n]
  /\ \E n \in NodeSet : dt[n] = roundEnd[n] /\ dirty[n]

\* The world in which router number k of the broadcast phase runs send_updates.
RECURSIVE SendUpTo(_, _, _)
SendUpTo(w, i, k) ==
  IF i >= k THEN w
  ELSE SendUpTo(send_updates(w, nodes[i], get_neighbors(graph, nodes[i])), i + 1, k)

\* C18: broadcast by an agent that is not Dirty changes nothing; broadcast by
\* a Dirty agent appends exactly one message to the mailbox of each agent that
\* is a current direct neighbour and to no other mailbox, replaces the agent's
\* own routing table, clears its flag and leaves its own distance table and
\* its own mailbox unchanged.
C18_BroadcastFrame ==
  pc = "send" =>
    \A k \in 1..Len(nodes) :
      LET self == nodes[k]
          neighbors == get_neighbors(graph, self)
          w0 == SendUpTo(World, 1, k)
          w1 == send_updates(w0, self, neighbors)
      IN IF ~w0.dirty[self] THEN w1 = w0
         ELSE /\ \A r \in NodeSet \ {self} :
                   IF r \in neighbors
                   THEN /\ Len(w1.mbox[r]) = Len(w0.mbox[r]) + 1
                        /\ IsPrefix(w0.mbox[r], w1.mbox[r])
                        /\ w1.mbox[r][Len(w1.mbox[r])].source = self
                   ELSE w1.mbox[r] = w0.mbox[r]
              /\ w1.mbox[self] = w0.mbox[self]
              /\ w1.rt[self] = create_routing_table(w0.dt[self])
              /\ \A r \in NodeSet \ {self} : w1.rt[r] = w0.rt[r]
              /\ w1.dirty = [w0.dirty EXCEPT ![self] = FALSE]
              /\ w1.dt = w0.dt

\* C19: the routing table computeRoutingTable leaves has, for every
\* destination d, the entry (m, h) with m the minimum cost over the
\* via-columns of distanceTable[d] and h the smallest via, in sorted order,
\* whose cost is m; it is (INF, the marker of no next hop) when every
\* via-column of d is INF.
C19_RoutingTableResult ==
  pc = "send" =>
    \A k \in 1..Len(nodes) :
      LET self == nodes[k]
          w0 == SendUpTo(World, 1, k)
          w1 == send_updates(w0, self, get_neighbors(graph, self))
      IN w0.dirty[self] =>
           /\ DOMAIN w1.rt[self] = DOMAIN w0.dt[self]
           /\ \A d \in DOMAIN w0.dt[self] :
                LET row == w0.dt[self][d]
                    m == w1.rt[self][d].cost
                    h == w1.rt[self][d].nextHop
                IN /\ \A v \in DOMAIN row : m <= row[v]
                   /\ IF \A v \in DOMAIN row : row[v] = INF
                      THEN m = INF /\ h = NoHop
                      ELSE /\ h \in DOMAIN row
                           /\ row[h] = m
                           /\ \A v \in DOMAIN row : row[v] = m => Rank(h) <= Rank(v)

C19_Witness ==
  /\ pc = "recv"
  /\ \E n \in NodeSet : \E d \in DOMAIN dt[n] :
       /\ rt[n] = create_routing_table(dt[n])
       /\ \E u, v \in DOMAIN dt[n][d] :
            /\ Rank(u) < Rank(v)
            /\ dt[n][d][u] = dt[n][d][v]
            /\ dt[n][d][u] # INF
            /\ rt[n][d] = [cost |-> dt[n][d][u], nextHop |-> u]

\* After initialization, after the reset, after each broadcast phase and after
\* each receive phase, up to the end of the run.
RoundBoundary ==
  pc \in {"while_initial", "send", "recv", "round_end", "while_update",
          "report_initial", "report_final", "done"}

\* C20: at every round boundary, for every agent n, distanceTable[v][v] is the
\* current link cost topology[n][v] for each direct neighbour v, and every
\* entry in the via-column of a declared node that is not a direct neighbour
\* of n is INF.
C20_DirectKnowledgeAll ==
  RoundBoundary =>
    \A n \in NodeSet :
      /\ \A v \in get_neighbors(graph, n) :
           /\ v \in DOMAIN dt[n]
           /\ dt[n][v][v] = graph[n][v]
      /\ \A v \in NodeSet \ ({n} \cup get_neighbors(graph, n)) :
           \A d \in DOMAIN dt[n] : dt[n][d][v] = INF

\* C20 (amended): the same, for the direct neighbours that are declared nodes
\* other than n itself, the only ones the table of n has an entry for.
C20_DirectKnowledge ==
  RoundBoundary =>
    \A n \in NodeSet : \A v \in NodeSet \ {n} :
      IF v \in get_neighbors(graph, n)
      THEN dt[n][v][v] = graph[n][v]
      ELSE \A d \in DOMAIN dt[n] : dt[n][d][v] = INF

C20_Witness ==
  /\ pc = "round_end"
  /\ stage = "update_loop"
  /\ \E n \in NodeSet : \E v \in NodeSet \ {n} :
       /\ v \in get_neighbors(graph, n)
       /\ v \in get_neighbors(topo0, n)
       /\ graph[n][v] # topo0[n][v]
       /\ \E d \in DOMAIN dt[n] : d # v /\ dt[n][d][v] # graph[n][v]
  /\ \E n \in NodeSet : \E v \in NodeSet \ {n} :
       /\ v \notin get_neighbors(graph, n)
       /\ get_neighbors(graph, n) # {}
====
